---- MODULE Spec2Model ----
(***************************************************************************)
(* State-machine model of the flowVersionManager Lightning web component   *)
(* (force-app/main/default/lwc/flowVersionManager/flowVersionManager.js).  *)
(* Every handler and every promise continuation of the component is one    *)
(* action.  The Apex controller is the environment: each request that is   *)
(* in flight may be answered, in any order, with a result or a rejection.  *)
(***************************************************************************)
EXTENDS Integers, Sequences, FiniteSets, Bags, TLC

VARIABLES
    flows,               \* @track flows
    selectedVersionIds,  \* @track selectedVersionIds
    isLoading,
    accessDenied,
    searchTerm,
    filterType,
    filterStatus,
    hasMoreFlows,
    currentOffset,
    isLoadingMore,
    showDeleteModal,
    isDeleting,
    sessionId,           \* @api sessionId
    accessPending,       \* the hasAccess() call of connectedCallback is awaited
    listReqs,            \* bag of getFlowDefinitions calls awaited by loadFlows
    versionReqs,         \* bag of getFlowVersions calls awaited by toggleFlowExpansion
    deleteReqs,          \* bag of deleteFlowVersions calls awaited by handleConfirmDelete
    lastTotalLoaded,     \* bookkeeping: totalLoaded of the last getFlowDefinitions result
    toasts,              \* ShowToastEvent toasts dispatched by the last step
    logged               \* ids written by console.error in the last step

vars == <<flows, selectedVersionIds, isLoading, accessDenied, searchTerm,
          filterType, filterStatus, hasMoreFlows, currentOffset, isLoadingMore,
          showDeleteModal, isDeleting, sessionId, accessPending, listReqs,
          versionReqs, deleteReqs, lastTotalLoaded, toasts, logged>>

(***************************************************************************)
(* Bounds of the model.                                                    *)
(***************************************************************************)
\* flows per page returned by getFlowDefinitions
PageSize == 1
\* requests that may be awaited at the same time
MaxInFlight == 2
\* deleteFlowVersions calls that may be awaited at the same time
MaxDeletes == 1
\* length of the flow lists the filter view is checked on
MaxFilterFlows == 2

\* the org holds one page and one more flow
NumFlows == PageSize + 1

(***************************************************************************)
(* Text.  A JavaScript string is a sequence of one-character strings, so   *)
(* that toLowerCase and includes are computed, not assumed.                *)
(***************************************************************************)
LowerChar(c) ==
    CASE c = "A" -> "a"
      [] c = "B" -> "b"
      [] OTHER -> c

\* String.prototype.toLowerCase
ToLowerCase(s) == [i \in 1..Len(s) |-> LowerChar(s[i])]

\* String.prototype.includes
Includes(s, t) ==
    \E k \in 0..(Len(s) - Len(t)) : \A j \in 1..Len(t) : s[k + j] = t[j]

(***************************************************************************)
(* The org behind the Apex controller: NumFlows flow definitions, in the   *)
(* order the query service lists them.  Flow f owns the versions 10f+1,    *)
(* 10f+2: one flow has an active and an inactive version, the next only an *)
(* active one, the next only an inactive one.  An activeVersionId of 0 and *)
(* a label of <<>> stand for null.                                         *)
(***************************************************************************)
OrgFlowIds == 1..NumFlows

OrgVersions(f) ==
    CASE f % 3 = 1 -> << [id |-> 10 * f + 1, isActive |-> TRUE],
                         [id |-> 10 * f + 2, isActive |-> FALSE] >>
      [] f % 3 = 2 -> << [id |-> 10 * f + 1, isActive |-> TRUE] >>
      [] OTHER     -> << [id |-> 10 * f + 1, isActive |-> FALSE] >>

OrgVersionIds == UNION { {OrgVersions(f)[i].id : i \in DOMAIN OrgVersions(f)} : f \in OrgFlowIds }

OrgActiveIds ==
    UNION { {OrgVersions(f)[i].id : i \in {j \in DOMAIN OrgVersions(f) : OrgVersions(f)[j].isActive}}
            : f \in OrgFlowIds }

OrgActiveVersionId(f) ==
    IF \E i \in DOMAIN OrgVersions(f) : OrgVersions(f)[i].isActive
    THEN (CHOOSE v \in {OrgVersions(f)[i] : i \in DOMAIN OrgVersions(f)} : v.isActive).id
    ELSE 0

OrgName(f) ==
    CASE f % 3 = 1 -> <<"A", "b">>
      [] f % 3 = 2 -> <<"b", "a">>
      [] OTHER     -> <<"B">>

OrgLabel(f) ==
    CASE f % 3 = 1 -> <<"a">>
      [] f % 3 = 2 -> <<>>
      [] OTHER     -> <<"A", "B">>

OrgType(f) == IF f % 2 = 1 THEN "Flow" ELSE "AutoLaunchedFlow"

\* FlowDefinitionSummary of flow f; versionCount <<>> is null (unknown until loaded)
FlowSummary(f) ==
    [id |-> f,
     developerName |-> OrgName(f),
     label |-> OrgLabel(f),
     processType |-> OrgType(f),
     activeVersionId |-> OrgActiveVersionId(f),
     isActive |-> OrgActiveVersionId(f) # 0,
     versionCount |-> <<>>]

\* getFlowDefinitions({offsetValue, searchFilter: null}), when it resolves
GetFlowDefinitions(offsetValue) ==
    LET last == IF offsetValue + PageSize < NumFlows THEN offsetValue + PageSize ELSE NumFlows
        n    == IF last > offsetValue THEN last - offsetValue ELSE 0
    IN  [flows       |-> [i \in 1..n |-> FlowSummary(offsetValue + i)],
         hasMore     |-> offsetValue + n < NumFlows,
         totalLoaded |-> offsetValue + n]

\* getFlowVersions({flowDefinitionId, activeVersionId}), when it resolves
GetFlowVersions(flowDefinitionId, activeVersionId) ==
    OrgVersions(flowDefinitionId)

(***************************************************************************)
(* Pure helpers of the component.                                          *)
(***************************************************************************)
\* processFlowData: expandIcon, versionLabel and processTypeLabel are display
\* strings derived from isExpanded, versionCount and processType
ProcessFlowData(data) ==
    [i \in 1..Len(data) |->
        [id |-> data[i].id,
         developerName |-> data[i].developerName,
         label |-> data[i].label,
         processType |-> data[i].processType,
         activeVersionId |-> data[i].activeVersionId,
         isActive |-> data[i].isActive,
         versionCount |-> data[i].versionCount,
         isExpanded |-> FALSE,
         isLoadingVersions |-> FALSE,
         versionsLoaded |-> FALSE,
         allInactiveSelected |-> FALSE,
         hasNoInactive |-> TRUE,
         versions |-> <<>>]]

ProcessVersionData(versions, flowName, sel) ==
    [i \in 1..Len(versions) |->
        [id |-> versions[i].id,
         isActive |-> versions[i].isActive,
         flowName |-> flowName,
         isSelected |-> versions[i].id \in sel]]

CheckAllInactiveSelected(versions, sel) ==
    LET inactiveVersions == SelectSeq(versions, LAMBDA v : ~v.isActive)
    IN  /\ Len(inactiveVersions) > 0
        /\ \A i \in DOMAIN inactiveVersions : inactiveVersions[i].id \in sel

UpdateVersionSelection(fl, versionId, isSelected) ==
    [i \in 1..Len(fl) |->
        [fl[i] EXCEPT !.versions =
            [k \in 1..Len(fl[i].versions) |->
                IF fl[i].versions[k].id = versionId
                THEN [fl[i].versions[k] EXCEPT !.isSelected = isSelected]
                ELSE fl[i].versions[k]]]]

UpdateFlowSelectionState(fl, sel) ==
    [i \in 1..Len(fl) |->
        IF ~fl[i].versionsLoaded
        THEN fl[i]
        ELSE [fl[i] EXCEPT !.allInactiveSelected =
                 CheckAllInactiveSelected(fl[i].versions, sel)]]

\* a slip in filteredFlows: the flow's own text is not lower-cased
MatchesSearch_CaseSensitive(flow, term) ==
    \/ Includes(flow.developerName, term)
    \/ (flow.label # <<>> /\ Includes(flow.label, term))

\* the predicate of the search filter; term is already lower-cased
MatchesSearch(flow, term) ==
    \/ Includes(ToLowerCase(flow.developerName), term)
    \/ (flow.label # <<>> /\ Includes(ToLowerCase(flow.label), term))

\* get filteredFlows
FilteredFlowsOf(fl, term0, type, status) ==
    LET r1 == IF term0 # <<>>
              THEN LET term == ToLowerCase(term0)
                   IN  SelectSeq(fl, LAMBDA flow : MatchesSearch(flow, term))
              ELSE fl
        r2 == IF type # ""
              THEN SelectSeq(r1, LAMBDA flow : flow.processType = type)
              ELSE r1
        r3 == IF status # ""
              THEN LET showActive == (status = "Active")
                   IN  SelectSeq(r2, LAMBDA flow : flow.isActive = showActive)
              ELSE r2
    IN  r3

filteredFlows == FilteredFlowsOf(flows, searchTerm, filterType, filterStatus)

selectedCount == Cardinality(selectedVersionIds)

noResults == ~isLoading /\ Len(filteredFlows) = 0

\* requests awaited by the component
InFlight ==
    BagCardinality(listReqs) + BagCardinality(versionReqs) + BagCardinality(deleteReqs)
    + (IF accessPending THEN 1 ELSE 0)

SessionIds == {"00D-session"}

\* showError: a sticky error toast; `what` is the fixed head of its message
ErrorToast(what) == [variant |-> "error", message |-> what, successCount |-> 0, failureCount |-> 0]

\* showSuccess / showWarning after a delete
DeleteToast(successCount, failureCount) ==
    IF failureCount = 0
    THEN [variant |-> "success", message |-> "Successfully deleted",
          successCount |-> successCount, failureCount |-> 0]
    ELSE [variant |-> "warning", message |-> "Deleted; failed to delete",
          successCount |-> successCount, failureCount |-> failureCount]

\* ids of the flows of a flow list
IdsOf(fl) == {fl[i].id : i \in DOMAIN fl}

Quiet == toasts' = <<>> /\ logged' = {}

\* a getFlowDefinitions call awaited by loadFlows(append): the offsetValue it sent,
\* who awaits loadFlows ("delete": handleConfirmDelete), and, as bookkeeping, the
\* ids of the flows that were in the list when loadFlows was called
ListRequest(append, offsetValue, cont, shown) ==
    [append |-> append, offset |-> offsetValue, cont |-> cont, before |-> IdsOf(shown)]

(***************************************************************************)
(* Initial state: the fields as declared, after connectedCallback has      *)
(* called checkAccessAndLoadData, which awaits hasAccess().                *)
(***************************************************************************)
Init ==
    /\ flows = <<>>
    /\ selectedVersionIds = {}
    /\ isLoading = TRUE
    /\ accessDenied = FALSE
    /\ searchTerm = <<>>
    /\ filterType = ""
    /\ filterStatus = ""
    /\ hasMoreFlows = FALSE
    /\ currentOffset = 0
    /\ isLoadingMore = FALSE
    /\ showDeleteModal = FALSE
    /\ isDeleting = FALSE
    /\ sessionId \in SessionIds
    /\ accessPending = TRUE
    /\ listReqs = EmptyBag
    /\ versionReqs = EmptyBag
    /\ deleteReqs = EmptyBag
    /\ lastTotalLoaded = 0
    /\ toasts = <<>>
    /\ logged = {}

(***************************************************************************)
(* checkAccessAndLoadData, after await hasAccess()                         *)
(***************************************************************************)
\* a slip in checkAccessAndLoadData: the return after the denial left out
HasAccessResolved_NoReturn(userHasAccess) ==
    /\ accessPending
    /\ accessPending' = FALSE
    /\ accessDenied' = IF ~userHasAccess THEN TRUE ELSE accessDenied
    /\ isLoading' = TRUE
    /\ currentOffset' = 0
    /\ flows' = <<>>
    /\ listReqs' = listReqs (+) SetToBag({ListRequest(FALSE, 0, "none", flows)})
    /\ Quiet
    /\ UNCHANGED <<lastTotalLoaded, selectedVersionIds, searchTerm, filterType, filterStatus,
                   hasMoreFlows, isLoadingMore, showDeleteModal, isDeleting, sessionId,
                   versionReqs, deleteReqs>>

\* hasAccess() resolved: access denied, or the synchronous part of loadFlows()
HasAccessResolved(userHasAccess) ==
    /\ accessPending
    /\ accessPending' = FALSE
    /\ IF ~userHasAccess
       THEN /\ accessDenied' = TRUE
            /\ isLoading' = FALSE
            /\ UNCHANGED <<flows, currentOffset, listReqs>>
       ELSE /\ isLoading' = TRUE
            /\ currentOffset' = 0
            /\ flows' = <<>>
            /\ listReqs' = listReqs (+) SetToBag({ListRequest(FALSE, 0, "none", flows)})
            /\ UNCHANGED accessDenied
    /\ Quiet
    /\ UNCHANGED <<lastTotalLoaded, selectedVersionIds, searchTerm, filterType, filterStatus, hasMoreFlows,
                   isLoadingMore, showDeleteModal, isDeleting, sessionId, versionReqs,
                   deleteReqs>>

\* hasAccess() rejected: the catch block
HasAccessRejected ==
    /\ accessPending
    /\ accessPending' = FALSE
    /\ toasts' = <<ErrorToast("Error checking access")>>
    /\ logged' = {}
    /\ accessDenied' = TRUE
    /\ isLoading' = FALSE
    /\ UNCHANGED <<lastTotalLoaded, flows, selectedVersionIds, searchTerm, filterType, filterStatus,
                   hasMoreFlows, currentOffset, isLoadingMore, showDeleteModal, isDeleting,
                   sessionId, listReqs, versionReqs, deleteReqs>>

(***************************************************************************)
(* loadFlows                                                               *)
(***************************************************************************)
\* the Load More control is offered while the last page reported hasMore
LoadMoreOffered == hasMoreFlows

\* handleLoadMore: loadFlows(true) up to its await
handleLoadMore ==
    /\ LoadMoreOffered
    /\ InFlight < MaxInFlight
    /\ isLoadingMore' = TRUE
    /\ listReqs' = listReqs (+) SetToBag({ListRequest(TRUE, currentOffset, "none", flows)})
    /\ Quiet
    /\ UNCHANGED <<lastTotalLoaded, flows, selectedVersionIds, isLoading, accessDenied, searchTerm, filterType,
                   filterStatus, hasMoreFlows, currentOffset, showDeleteModal, isDeleting,
                   sessionId, accessPending, versionReqs, deleteReqs>>

\* a slip in loadFlows: the new page put before the loaded flows
MergedFlows_Prepending(append, loaded, newFlows) ==
    IF append THEN newFlows \o loaded ELSE newFlows

\* this.flows after a page has arrived
MergedFlows(append, loaded, newFlows) ==
    IF append THEN loaded \o newFlows ELSE newFlows

\* a slip in handleConfirmDelete: the flags are reset in catch, not in finally
AfterLoad_NoFinally(req) == UNCHANGED <<isDeleting, showDeleteModal>>

\* the finally block of handleConfirmDelete, run when its awaited loadFlows() returns
AfterLoad(req) ==
    IF req.cont = "delete"
    THEN isDeleting' = FALSE /\ showDeleteModal' = FALSE
    ELSE UNCHANGED <<isDeleting, showDeleteModal>>

\* getFlowDefinitions resolved: the rest of the try block, then finally
LoadFlowsResolved(req) ==
    /\ BagIn(req, listReqs)
    /\ listReqs' = listReqs (-) SetToBag({req})
    /\ LET response == GetFlowDefinitions(req.offset)
           newFlows == ProcessFlowData(response.flows)
       IN  /\ flows' = MergedFlows(req.append, flows, newFlows)
           /\ hasMoreFlows' = response.hasMore
           /\ currentOffset' = response.totalLoaded
           /\ lastTotalLoaded' = response.totalLoaded
    /\ isLoading' = FALSE
    /\ isLoadingMore' = FALSE
    /\ AfterLoad(req)
    /\ Quiet
    /\ UNCHANGED <<selectedVersionIds, accessDenied, searchTerm, filterType, filterStatus,
                   sessionId, accessPending, versionReqs, deleteReqs>>

\* getFlowDefinitions rejected: catch, then finally
LoadFlowsRejected(req) ==
    /\ BagIn(req, listReqs)
    /\ listReqs' = listReqs (-) SetToBag({req})
    /\ toasts' = <<ErrorToast("Error loading flows")>>
    /\ logged' = {}
    /\ isLoading' = FALSE
    /\ isLoadingMore' = FALSE
    /\ AfterLoad(req)
    /\ UNCHANGED <<lastTotalLoaded, flows, selectedVersionIds, accessDenied, searchTerm, filterType,
                   filterStatus, hasMoreFlows, currentOffset, sessionId, accessPending,
                   versionReqs, deleteReqs>>

(***************************************************************************)
(* toggleFlowExpansion                                                     *)
(***************************************************************************)
\* Array.prototype.findIndex on the flow id; 0 stands for -1 (not found)
FindIndex(fl, flowId) ==
    IF \E i \in DOMAIN fl : fl[i].id = flowId
    THEN CHOOSE i \in DOMAIN fl : fl[i].id = flowId /\ \A j \in 1..(i - 1) : fl[j].id # flowId
    ELSE 0

\* ids of the flow rows on the page
FlowRowIds == {flows[i].id : i \in DOMAIN flows}

\* a slip in toggleFlowExpansion: the versionsLoaded test left out
NeedsVersions_IgnoringLoaded(flow, isExpanding) == isExpanding

\* whether toggleFlowExpansion fetches the versions of the flow
NeedsVersions(flow, isExpanding) == isExpanding /\ ~flow.versionsLoaded

\* a slip in toggleFlowExpansion: a collapse drops the version rows
ToggledFlow_DroppingVersions(f, isExpanding) ==
    [f EXCEPT !.isExpanded = isExpanding,
              !.isLoadingVersions = isExpanding /\ ~f.versionsLoaded,
              !.versions = IF isExpanding THEN f.versions ELSE <<>>]

\* the flow entry after the expansion state has been updated
ToggledFlow(f, isExpanding) ==
    [f EXCEPT !.isExpanded = isExpanding,
              !.isLoadingVersions = isExpanding /\ ~f.versionsLoaded]

\* handleFlowToggle: toggleFlowExpansion(flowId) up to its await
handleFlowToggle(flowId) ==
    LET flowIndex   == FindIndex(flows, flowId)
        flow        == flows[flowIndex]
        isExpanding == ~flow.isExpanded
    IN  /\ flowIndex # 0
        /\ flows' = [idx \in 1..Len(flows) |->
                        IF idx = flowIndex
                        THEN ToggledFlow(flows[idx], isExpanding)
                        ELSE flows[idx]]
        /\ IF NeedsVersions(flow, isExpanding)
           THEN /\ InFlight < MaxInFlight
                /\ versionReqs' = versionReqs (+) SetToBag({[flowId |-> flowId,
                                                             flowIndex |-> flowIndex,
                                                             activeVersionId |-> flow.activeVersionId,
                                                             developerName |-> flow.developerName]})
           ELSE UNCHANGED versionReqs
        /\ Quiet
        /\ UNCHANGED <<lastTotalLoaded, selectedVersionIds, isLoading, accessDenied, searchTerm, filterType,
                       filterStatus, hasMoreFlows, currentOffset, isLoadingMore, showDeleteModal,
                       isDeleting, sessionId, accessPending, listReqs, deleteReqs>>

\* getFlowVersions resolved: the rest of the try block
VersionsResolved(req) ==
    /\ BagIn(req, versionReqs)
    /\ versionReqs' = versionReqs (-) SetToBag({req})
    /\ LET versions          == GetFlowVersions(req.flowId, req.activeVersionId)
           processedVersions == ProcessVersionData(versions, req.developerName, selectedVersionIds)
           hasInactive       == \E i \in DOMAIN processedVersions : ~processedVersions[i].isActive
       IN  flows' = [idx \in 1..Len(flows) |->
                        IF idx = req.flowIndex
                        THEN [flows[idx] EXCEPT
                                 !.versions = processedVersions,
                                 !.versionsLoaded = TRUE,
                                 !.isLoadingVersions = FALSE,
                                 !.hasNoInactive = ~hasInactive,
                                 !.allInactiveSelected =
                                     CheckAllInactiveSelected(processedVersions, selectedVersionIds),
                                 !.versionCount = <<Len(processedVersions)>>]
                        ELSE flows[idx]]
    /\ Quiet
    /\ UNCHANGED <<lastTotalLoaded, selectedVersionIds, isLoading, accessDenied, searchTerm, filterType,
                   filterStatus, hasMoreFlows, currentOffset, isLoadingMore, showDeleteModal,
                   isDeleting, sessionId, accessPending, listReqs, deleteReqs>>

\* getFlowVersions rejected: the catch block
VersionsRejected(req) ==
    /\ BagIn(req, versionReqs)
    /\ versionReqs' = versionReqs (-) SetToBag({req})
    /\ toasts' = <<ErrorToast("Error loading versions")>>
    /\ logged' = {}
    /\ flows' = [idx \in 1..Len(flows) |->
                    IF idx = req.flowIndex
                    THEN [flows[idx] EXCEPT !.isLoadingVersions = FALSE]
                    ELSE flows[idx]]
    /\ UNCHANGED <<lastTotalLoaded, selectedVersionIds, isLoading, accessDenied, searchTerm, filterType,
                   filterStatus, hasMoreFlows, currentOffset, isLoadingMore, showDeleteModal,
                   isDeleting, sessionId, accessPending, listReqs, deleteReqs>>

(***************************************************************************)
(* Selection                                                               *)
(***************************************************************************)
\* ids of the version rows on the page: the versions of the expanded flows
VersionRowIds ==
    UNION { {flows[i].versions[k].id : k \in DOMAIN flows[i].versions}
            : i \in {j \in DOMAIN flows : flows[j].isExpanded} }

\* whether a version row with this id is shown as active
ShownActive(versionId) ==
    \E i \in DOMAIN flows : \E k \in DOMAIN flows[i].versions :
        flows[i].versions[k].id = versionId /\ flows[i].versions[k].isActive

\* a slip in handleVersionSelect: the id is added whatever the checkbox says
ToggledSelection_AddOnly(sel, versionId, isChecked) == sel \cup {versionId}

\* selectedVersionIds after the add or delete of handleVersionSelect
ToggledSelection(sel, versionId, isChecked) ==
    IF isChecked THEN sel \cup {versionId} ELSE sel \ {versionId}

handleVersionSelect(versionId, isChecked) ==
    /\ selectedVersionIds' = ToggledSelection(selectedVersionIds, versionId, isChecked)
    /\ flows' = UpdateFlowSelectionState(UpdateVersionSelection(flows, versionId, isChecked),
                                         selectedVersionIds')
    /\ Quiet
    /\ UNCHANGED <<lastTotalLoaded, isLoading, accessDenied, searchTerm, filterType, filterStatus, hasMoreFlows,
                   currentOffset, isLoadingMore, showDeleteModal, isDeleting, sessionId,
                   accessPending, listReqs, versionReqs, deleteReqs>>

\* a slip in handleSelectFlowInactive: the isActive test left out
BulkTouches_IgnoringActive(flow, version, flowId) ==
    flow.id = flowId /\ flow.versionsLoaded

\* whether handleSelectFlowInactive touches this version of this flow
BulkTouches(flow, version, flowId) ==
    flow.id = flowId /\ flow.versionsLoaded /\ ~version.isActive

\* ids that handleSelectFlowInactive adds to or deletes from selectedVersionIds
BulkIds(fl, flowId) ==
    UNION { {fl[i].versions[k].id :
                k \in {n \in DOMAIN fl[i].versions : BulkTouches(fl[i], fl[i].versions[n], flowId)}}
            : i \in DOMAIN fl }

handleSelectFlowInactive(flowId, isChecked) ==
    /\ flows' = [i \in 1..Len(flows) |->
                    IF flows[i].id = flowId /\ flows[i].versionsLoaded
                    THEN [flows[i] EXCEPT
                             !.versions = [k \in 1..Len(flows[i].versions) |->
                                 IF BulkTouches(flows[i], flows[i].versions[k], flowId)
                                 THEN [flows[i].versions[k] EXCEPT !.isSelected = isChecked]
                                 ELSE flows[i].versions[k]],
                             !.allInactiveSelected = isChecked]
                    ELSE flows[i]]
    /\ selectedVersionIds' = IF isChecked
                             THEN selectedVersionIds \cup BulkIds(flows, flowId)
                             ELSE selectedVersionIds \ BulkIds(flows, flowId)
    /\ Quiet
    /\ UNCHANGED <<lastTotalLoaded, isLoading, accessDenied, searchTerm, filterType, filterStatus, hasMoreFlows,
                   currentOffset, isLoadingMore, showDeleteModal, isDeleting, sessionId,
                   accessPending, listReqs, versionReqs, deleteReqs>>

(***************************************************************************)
(* Delete                                                                  *)
(***************************************************************************)
handleDeleteClick ==
    /\ showDeleteModal' = IF selectedCount > 0 THEN TRUE ELSE showDeleteModal
    /\ Quiet
    /\ UNCHANGED <<lastTotalLoaded, flows, selectedVersionIds, isLoading, accessDenied, searchTerm, filterType,
                   filterStatus, hasMoreFlows, currentOffset, isLoadingMore, isDeleting,
                   sessionId, accessPending, listReqs, versionReqs, deleteReqs>>

\* the confirmation modal, with its Cancel and Delete buttons, is on the page
ModalOffered == showDeleteModal

handleCancelDelete ==
    /\ ModalOffered
    /\ showDeleteModal' = FALSE
    /\ Quiet
    /\ UNCHANGED <<lastTotalLoaded, flows, selectedVersionIds, isLoading, accessDenied, searchTerm, filterType,
                   filterStatus, hasMoreFlows, currentOffset, isLoadingMore, isDeleting,
                   sessionId, accessPending, listReqs, versionReqs, deleteReqs>>

\* a slip in handleConfirmDelete: the session id is not passed on
DeleteRequest_WithoutSession(sel, sid) == [flowVersionIds |-> sel, sessionId |-> ""]

\* the arguments of the deleteFlowVersions call
DeleteRequest(sel, sid) == [flowVersionIds |-> sel, sessionId |-> sid]

\* handleConfirmDelete up to its await
handleConfirmDelete ==
    /\ ModalOffered
    /\ InFlight < MaxInFlight
    /\ BagCardinality(deleteReqs) < MaxDeletes
    /\ isDeleting' = TRUE
    /\ deleteReqs' = deleteReqs (+) SetToBag({DeleteRequest(selectedVersionIds, sessionId)})
    /\ Quiet
    /\ UNCHANGED <<lastTotalLoaded, flows, selectedVersionIds, isLoading, accessDenied, searchTerm, filterType,
                   filterStatus, hasMoreFlows, currentOffset, isLoadingMore, showDeleteModal,
                   sessionId, accessPending, listReqs, versionReqs>>

\* ids the org refuses to delete: those of active versions
Undeletable(ids) == ids \cap OrgActiveIds

\* the result of deleteFlowVersions when the org fails to delete the ids in `failed`
DeleteResult(req, failed) ==
    [successCount |-> Cardinality(req.flowVersionIds \ failed),
     failureCount |-> Cardinality(failed),
     results      |-> {[flowVersionId |-> id, success |-> id \notin failed] : id \in req.flowVersionIds}]

\* a slip in handleConfirmDelete: the filter on success left out
FailedIds_Unfiltered(results) == {r.flowVersionId : r \in results}

\* result.results.filter(r => !r.success), the ids console.error is called with
FailedIds(results) == {r.flowVersionId : r \in {x \in results : ~x.success}}

\* the ids that handleConfirmDelete writes with console.error for a result, one
\* line for each
LoggedFailures(result) ==
    IF result.failureCount = 0 THEN {} ELSE FailedIds(result.results)

\* a slip in handleConfirmDelete: selection cleared and list reloaded only when
\* nothing failed
DeleteResolved_ReloadOnlyOnSuccess(req, failed) ==
    /\ BagIn(req, deleteReqs)
    /\ Undeletable(req.flowVersionIds) \subseteq failed
    /\ deleteReqs' = deleteReqs (-) SetToBag({req})
    /\ LET result == DeleteResult(req, failed)
       IN  /\ toasts' = <<DeleteToast(result.successCount, result.failureCount)>>
           /\ logged' = LoggedFailures(result)
    /\ IF failed = {}
       THEN /\ selectedVersionIds' = {}
            /\ isLoading' = TRUE
            /\ currentOffset' = 0
            /\ flows' = <<>>
            /\ listReqs' = listReqs (+) SetToBag({ListRequest(FALSE, 0, "delete", flows)})
            /\ UNCHANGED <<isDeleting, showDeleteModal>>
       ELSE /\ isDeleting' = FALSE
            /\ showDeleteModal' = FALSE
            /\ UNCHANGED <<selectedVersionIds, isLoading, currentOffset, flows, listReqs>>
    /\ UNCHANGED <<lastTotalLoaded, accessDenied, searchTerm, filterType, filterStatus,
                   hasMoreFlows, isLoadingMore, sessionId, accessPending, versionReqs>>

\* deleteFlowVersions resolved with a result whose failed entries are `failed`:
\* the toast, the console errors, the clearing of the selection, the synchronous
\* part of loadFlows()
DeleteResolved(req, failed) ==
    /\ BagIn(req, deleteReqs)
    /\ Undeletable(req.flowVersionIds) \subseteq failed
    /\ deleteReqs' = deleteReqs (-) SetToBag({req})
    /\ LET result == DeleteResult(req, failed)
       IN  /\ toasts' = <<DeleteToast(result.successCount, result.failureCount)>>
           /\ logged' = LoggedFailures(result)
    /\ selectedVersionIds' = {}
    /\ isLoading' = TRUE
    /\ currentOffset' = 0
    /\ flows' = <<>>
    /\ listReqs' = listReqs (+) SetToBag({ListRequest(FALSE, 0, "delete", flows)})
    /\ UNCHANGED <<lastTotalLoaded, accessDenied, searchTerm, filterType, filterStatus, hasMoreFlows,
                   isLoadingMore, showDeleteModal, isDeleting, sessionId, accessPending,
                   versionReqs>>

\* a slip in handleConfirmDelete: the selection is cleared in finally, not in try
DeleteRejected_ClearingSelection(req) ==
    /\ BagIn(req, deleteReqs)
    /\ deleteReqs' = deleteReqs (-) SetToBag({req})
    /\ toasts' = <<ErrorToast("Error deleting flow versions")>>
    /\ logged' = {}
    /\ isDeleting' = FALSE
    /\ showDeleteModal' = FALSE
    /\ selectedVersionIds' = {}
    /\ flows' = UpdateFlowSelectionState(flows, {})
    /\ UNCHANGED <<lastTotalLoaded, isLoading, accessDenied, searchTerm, filterType,
                   filterStatus, hasMoreFlows, currentOffset, isLoadingMore, sessionId,
                   accessPending, listReqs, versionReqs>>

\* deleteFlowVersions rejected: catch, then finally
DeleteRejected(req) ==
    /\ BagIn(req, deleteReqs)
    /\ deleteReqs' = deleteReqs (-) SetToBag({req})
    /\ toasts' = <<ErrorToast("Error deleting flow versions")>>
    /\ logged' = {}
    /\ isDeleting' = FALSE
    /\ showDeleteModal' = FALSE
    /\ UNCHANGED <<lastTotalLoaded, flows, selectedVersionIds, isLoading, accessDenied, searchTerm, filterType,
                   filterStatus, hasMoreFlows, currentOffset, isLoadingMore, sessionId,
                   accessPending, listReqs, versionReqs>>

(***************************************************************************)
(* The component                                                           *)
(***************************************************************************)
Next ==
    \/ \E userHasAccess \in BOOLEAN : HasAccessResolved(userHasAccess)
    \/ HasAccessRejected
    \/ handleLoadMore
    \/ \E req \in BagToSet(listReqs) : LoadFlowsResolved(req)
    \/ \E req \in BagToSet(listReqs) : LoadFlowsRejected(req)
    \/ \E flowId \in FlowRowIds : handleFlowToggle(flowId)
    \/ \E req \in BagToSet(versionReqs) : VersionsResolved(req)
    \/ \E req \in BagToSet(versionReqs) : VersionsRejected(req)
    \/ \E versionId \in VersionRowIds, isChecked \in BOOLEAN : handleVersionSelect(versionId, isChecked)
    \/ \E flowId \in FlowRowIds, isChecked \in BOOLEAN : handleSelectFlowInactive(flowId, isChecked)
    \/ handleDeleteClick
    \/ handleCancelDelete
    \/ handleConfirmDelete
    \/ \E req \in BagToSet(deleteReqs) : \E failed \in SUBSET req.flowVersionIds : DeleteResolved(req, failed)
    \/ \E req \in BagToSet(deleteReqs) : DeleteRejected(req)

Spec == Init /\ [][Next]_vars

(***************************************************************************)
(* The filter view on its own: any list of at most MaxFilterFlows loaded   *)
(* flows, and the three filter handlers.                                   *)
(***************************************************************************)
FilterNames == {<<"A", "b">>, <<"b", "B">>}
FilterLabels == {<<>>, <<"B", "a">>}
FilterTypes == {"Flow", "AutoLaunchedFlow"}
SearchValues == {<<>>, <<"a">>, <<"B">>, <<"a", "B">>, <<"b", "a">>}
TypeValues == {""} \cup FilterTypes
\* the values of statusOptions
StatusValues == {"", "Active", "Inactive"}

FilterSummaries ==
    [developerName : FilterNames, label : FilterLabels, processType : FilterTypes,
     isActive : BOOLEAN]

InitFilter ==
    /\ \E n \in 0..MaxFilterFlows : \E pick \in [1..n -> FilterSummaries] :
          flows = ProcessFlowData([i \in 1..n |->
                      [id |-> i,
                       developerName |-> pick[i].developerName,
                       label |-> pick[i].label,
                       processType |-> pick[i].processType,
                       activeVersionId |-> IF pick[i].isActive THEN 10 * i + 1 ELSE 0,
                       isActive |-> pick[i].isActive,
                       versionCount |-> <<>>]])
    /\ selectedVersionIds = {}
    /\ isLoading = FALSE
    /\ accessDenied = FALSE
    /\ searchTerm = <<>>
    /\ filterType = ""
    /\ filterStatus = ""
    /\ hasMoreFlows = FALSE
    /\ currentOffset = Len(flows)
    /\ isLoadingMore = FALSE
    /\ showDeleteModal = FALSE
    /\ isDeleting = FALSE
    /\ sessionId \in SessionIds
    /\ accessPending = FALSE
    /\ listReqs = EmptyBag
    /\ versionReqs = EmptyBag
    /\ deleteReqs = EmptyBag
    /\ lastTotalLoaded = Len(flows)
    /\ toasts = <<>>
    /\ logged = {}

handleSearchChange(value) ==
    /\ searchTerm' = value
    /\ UNCHANGED <<lastTotalLoaded, flows, selectedVersionIds, isLoading, accessDenied, filterType, filterStatus,
                   hasMoreFlows, currentOffset, isLoadingMore, showDeleteModal, isDeleting,
                   sessionId, accessPending, listReqs, versionReqs, deleteReqs, lastTotalLoaded, toasts, logged>>

handleFilterTypeChange(value) ==
    /\ filterType' = value
    /\ UNCHANGED <<lastTotalLoaded, flows, selectedVersionIds, isLoading, accessDenied, searchTerm, filterStatus,
                   hasMoreFlows, currentOffset, isLoadingMore, showDeleteModal, isDeleting,
                   sessionId, accessPending, listReqs, versionReqs, deleteReqs, lastTotalLoaded, toasts, logged>>

handleFilterStatusChange(value) ==
    /\ filterStatus' = value
    /\ UNCHANGED <<lastTotalLoaded, flows, selectedVersionIds, isLoading, accessDenied, searchTerm, filterType,
                   hasMoreFlows, currentOffset, isLoadingMore, showDeleteModal, isDeleting,
                   sessionId, accessPending, listReqs, versionReqs, deleteReqs, lastTotalLoaded, toasts, logged>>

NextFilter ==
    \/ \E value \in SearchValues : handleSearchChange(value)
    \/ \E value \in TypeValues : handleFilterTypeChange(value)
    \/ \E value \in StatusValues : handleFilterStatusChange(value)

SpecFilter == InitFilter /\ [][NextFilter]_vars

(***************************************************************************)
(* Properties                                                              *)
(***************************************************************************)
\* copies of a request in a bag of awaited requests
Copies(req, bag) == IF BagIn(req, bag) THEN CopiesIn(req, bag) ELSE 0

\* the requests that a step adds to a bag of awaited requests
Issued(before, after) == {req \in BagToSet(after) : Copies(req, after) > Copies(req, before)}

\* ids of the loaded versions of the flows with this id that are not active
InactiveIdsOfFlow(flowId) ==
    UNION { {flows[i].versions[k].id :
                k \in {n \in DOMAIN flows[i].versions : ~flows[i].versions[n].isActive}}
            : i \in {j \in DOMAIN flows : flows[j].id = flowId} }

\* C1: a step adds an id to selectedVersionIds only if no loaded version with
\* that id is active at that moment; in particular handleVersionSelect called
\* with checked = true on an active version does not add its id.
C1_OnlyInactiveSelected ==
    [][\A id \in selectedVersionIds' \ selectedVersionIds : ~ShownActive(id)]_vars

\* C2: the ids of a deleteFlowVersions call never include the id of a version
\* that is loaded as active when the call is made.
C2_DeleteExcludesActive ==
    [][\A req \in Issued(deleteReqs, deleteReqs') :
          \A id \in req.flowVersionIds : ~ShownActive(id)]_vars

\* C3: handleSelectFlowInactive(flowId, checked) changes selectedVersionIds
\* exactly by adding (checked) or removing (unchecked) the ids of the loaded
\* inactive versions of that flow: it adds no id of an active version, and
\* nothing when the versions of the flow are not loaded.
C3_BulkSelectOnlyInactive ==
    [][\A flowId \in FlowRowIds, isChecked \in BOOLEAN :
          handleSelectFlowInactive(flowId, isChecked) =>
             /\ isChecked => selectedVersionIds' = selectedVersionIds \cup InactiveIdsOfFlow(flowId)
             /\ ~isChecked => selectedVersionIds' = selectedVersionIds \ InactiveIdsOfFlow(flowId)
             /\ \A id \in selectedVersionIds' \ selectedVersionIds : ~ShownActive(id)
             /\ (\A i \in DOMAIN flows : flows[i].id = flowId => ~flows[i].versionsLoaded)
                   => selectedVersionIds' = selectedVersionIds]_vars

\* C3 witness: a flow with an active and an inactive version loaded, whose
\* header checkbox is checked: the inactive one is selected, the active one not.
C3_Witness ==
    \E i \in DOMAIN flows :
        /\ flows[i].versionsLoaded
        /\ flows[i].allInactiveSelected
        /\ \E k \in DOMAIN flows[i].versions : flows[i].versions[k].isActive
        /\ \E k \in DOMAIN flows[i].versions : ~flows[i].versions[k].isActive
        /\ \A k \in DOMAIN flows[i].versions :
              /\ flows[i].versions[k].isSelected = ~flows[i].versions[k].isActive
              /\ (flows[i].versions[k].id \in selectedVersionIds) = ~flows[i].versions[k].isActive

\* C4: when the deleteFlowVersions call rejects, the step that handles the
\* rejection leaves selectedVersionIds and flows as they are, issues no
\* getFlowDefinitions call, shows exactly one toast, an error, and closes the
\* modal with the busy flag down, so that the selection can be submitted again.
C4_FailedDeleteKeepsSelection ==
    [][\A req \in BagToSet(deleteReqs) :
          DeleteRejected(req) =>
             /\ selectedVersionIds' = selectedVersionIds
             /\ flows' = flows
             /\ Issued(listReqs, listReqs') = {}
             /\ Len(toasts') = 1
             /\ toasts'[1].variant = "error"
             /\ ~isDeleting' /\ ~showDeleteModal']_vars

\* C4 witness: a delete has just failed; the selection and the list are still there.
C4_Witness ==
    /\ toasts = <<ErrorToast("Error deleting flow versions")>>
    /\ selectedVersionIds # {}
    /\ flows # <<>>
    /\ listReqs = EmptyBag
    /\ deleteReqs = EmptyBag
    /\ ~isDeleting
    /\ ~showDeleteModal

\* C5: when the deleteFlowVersions call resolves with a result, with or without
\* failures, selectedVersionIds becomes empty, the flow list is emptied, and
\* exactly one getFlowDefinitions call, a replacing load at offset 0, is issued.
C5_DeleteResultClearsAndReloads ==
    [][\A req \in BagToSet(deleteReqs) : \A failed \in SUBSET req.flowVersionIds :
          DeleteResolved(req, failed) =>
             /\ selectedVersionIds' = {}
             /\ flows' = <<>>
             /\ currentOffset' = 0
             /\ isLoading'
             /\ BagCardinality(listReqs') = BagCardinality(listReqs) + 1
             /\ \A r \in Issued(listReqs, listReqs') : r.offset = 0 /\ ~r.append]_vars

\* C5 witness: a delete of two ids has just resolved with one success and one
\* failure: the selection and the list are empty and the reload is awaited.
C5_Witness ==
    /\ toasts = <<DeleteToast(1, 1)>>
    /\ selectedVersionIds = {}
    /\ flows = <<>>
    /\ isLoading
    /\ \E r \in BagToSet(listReqs) : r.cont = "delete" /\ r.offset = 0 /\ ~r.append

\* C6: a step issues a deleteFlowVersions call only as handleConfirmDelete does:
\* one call, carrying exactly the ids of selectedVersionIds at that moment and
\* the session id as it was given; and handleConfirmDelete issues one call.
C6_OneRequestWithTheSelection ==
    [][/\ handleConfirmDelete =>
             BagCardinality(deleteReqs') = BagCardinality(deleteReqs) + 1
       /\ \A req \in Issued(deleteReqs, deleteReqs') :
             /\ BagCardinality(deleteReqs') = BagCardinality(deleteReqs) + 1
             /\ req.flowVersionIds = selectedVersionIds
             /\ req.sessionId = sessionId]_vars

\* C6 witness: a deleteFlowVersions call for a non-empty selection is awaited.
C6_Witness ==
    /\ isDeleting
    /\ selectedVersionIds # {}
    /\ \E req \in BagToSet(deleteReqs) :
          req.flowVersionIds = selectedVersionIds /\ req.sessionId = sessionId

\* C7: when hasAccess() resolves to false the component is in the access-denied
\* state (accessDenied, not isLoading); the access-denied state is never left,
\* and in it no request is awaited and none is issued.
C7_AccessDeniedIsTerminal ==
    /\ [](accessDenied => ~isLoading /\ InFlight = 0 /\ flows = <<>>)
    /\ [][/\ HasAccessResolved(FALSE) => accessDenied' /\ ~isLoading'
          /\ accessDenied =>
                /\ accessDenied'
                /\ Issued(listReqs, listReqs') = {}
                /\ Issued(versionReqs, versionReqs') = {}
                /\ Issued(deleteReqs, deleteReqs') = {}]_vars

\* C7 witness: access was denied by the answer false, not by an error.
C7_Witness ==
    /\ accessDenied
    /\ ~isLoading
    /\ ~accessPending
    /\ toasts = <<>>

\* C8: when a getFlowDefinitions call rejects (initial load, load-more or the
\* reload after a delete), one error toast is shown and every flow that was in
\* the list when loadFlows was called is still in the list.
C8_NoFlowLostOnFetchError ==
    [][\A req \in BagToSet(listReqs) :
          LoadFlowsRejected(req) =>
             /\ Len(toasts') = 1
             /\ toasts'[1].variant = "error"
             /\ req.before \subseteq IdsOf(flows')]_vars

\* the page that getFlowDefinitions returns for an offset, as loadFlows stores it
PageAt(offsetValue) == ProcessFlowData(GetFlowDefinitions(offsetValue).flows)

\* what every successful getFlowDefinitions response does, as C9 states it: a
\* replacing load puts the page in place of the list, a load-more puts it after
\* the flows of the list, in their order; hasMoreFlows and currentOffset follow
\* the response
PageStored ==
    \A req \in BagToSet(listReqs) :
        LoadFlowsResolved(req) =>
           /\ ~req.append => req.offset = 0 /\ flows' = PageAt(0)
           /\ req.append => flows' = flows \o PageAt(req.offset)
           /\ hasMoreFlows' = GetFlowDefinitions(req.offset).hasMore
           /\ currentOffset' = GetFlowDefinitions(req.offset).totalLoaded

IdSeq(fl) == [i \in 1..Len(fl) |-> fl[i].id]

\* whether a sequence of flow ids is a concatenation of pages of the org
RECURSIVE PagesConcatenated(_)
PagesConcatenated(ids) ==
    \/ ids = <<>>
    \/ \E o \in 0..(NumFlows - 1) :
          LET page == IdSeq(PageAt(o))
          IN  /\ Len(page) > 0
              /\ Len(page) <= Len(ids)
              /\ SubSeq(ids, 1, Len(page)) = page
              /\ PagesConcatenated(SubSeq(ids, Len(page) + 1, Len(ids)))

ContainsIgnoringCase(text, term) ==
    \E k \in 0..(Len(text) - Len(term)) :
        \A j \in 1..Len(term) : LowerChar(text[k + j]) = LowerChar(term[j])

\* whether a flow satisfies every filter that is not empty
SatisfiesFilters(flow) ==
    /\ searchTerm # <<>> =>
          \/ ContainsIgnoringCase(flow.developerName, searchTerm)
          \/ ContainsIgnoringCase(flow.label, searchTerm)
    /\ filterType # "" => flow.processType = filterType
    /\ filterStatus # "" => flow.isActive = (filterStatus = "Active")

\* the k-th smallest element of a set of indices
KthOf(S, k) == CHOOSE i \in S : Cardinality({j \in S : j <= i}) = k

\* C10: filteredFlows is the subsequence of flows, in the order of flows, of
\* exactly the flows that satisfy every non-empty filter (search term in
\* developerName or label, letter case aside; processType equal to the type
\* filter; isActive equal to (status = "Active")); with all three filters empty
\* it is flows.
C10_FilteredFlowsIsTheMatchingSubsequence ==
    LET kept == {i \in DOMAIN flows : SatisfiesFilters(flows[i])}
    IN  /\ Len(filteredFlows) = Cardinality(kept)
        /\ \A k \in 1..Len(filteredFlows) : filteredFlows[k] = flows[KthOf(kept, k)]
        /\ (searchTerm = <<>> /\ filterType = "" /\ filterStatus = "") => filteredFlows = flows

\* C10 witness: all three filters are set, the term has a capital letter that
\* matches a small one, and the view keeps the second flow and drops the first.
C10_Witness ==
    /\ searchTerm = <<"a", "B">>
    /\ filterType # ""
    /\ filterStatus = "Inactive"
    /\ Len(flows) = 2
    /\ filteredFlows = <<flows[2]>>
    /\ flows[2].developerName = <<"A", "b">>
    /\ SatisfiesFilters(flows[2])
    /\ ~SatisfiesFilters(flows[1])

\* C11: a getFlowVersions call is issued only by a toggle that expands a flow
\* row whose versionsLoaded is false; a collapse or an expansion of a row whose
\* versions are loaded issues none and leaves versionsLoaded and the versions
\* of every row as they are.  versionsLoaded of a row that stays in the list
\* goes back to false only when the page of a reload replaces the list.
C11_NoRefetchOnceLoaded ==
    [][/\ \A flowId \in FlowRowIds :
             (handleFlowToggle(flowId) /\ flows[FindIndex(flows, flowId)].versionsLoaded) =>
                /\ Issued(versionReqs, versionReqs') = {}
                /\ \A idx \in DOMAIN flows :
                      /\ flows'[idx].versionsLoaded = flows[idx].versionsLoaded
                      /\ flows'[idx].versions = flows[idx].versions
       /\ \A req \in Issued(versionReqs, versionReqs') :
             /\ flows[req.flowIndex].id = req.flowId
             /\ ~flows[req.flowIndex].versionsLoaded
             /\ ~flows[req.flowIndex].isExpanded
       /\ \A idx \in DOMAIN flows :
             (flows[idx].versionsLoaded /\ idx \in DOMAIN flows' /\ ~flows'[idx].versionsLoaded) =>
                \E r \in BagToSet(listReqs) : ~r.append /\ LoadFlowsResolved(r)]_vars

\* C11 witness: a flow whose versions are loaded has been collapsed, and no
\* request is awaited.
C11_Witness ==
    /\ InFlight = 0
    /\ \E i \in DOMAIN flows :
          /\ flows[i].versionsLoaded
          /\ ~flows[i].isExpanded
          /\ ~flows[i].isLoadingVersions
          /\ Len(flows[i].versions) > 0

\* C12: a toggle of a flow row, collapse or expansion, leaves selectedVersionIds
\* as it is and leaves the versions of every row, with their isSelected flags,
\* as they are: a version that is in selectedVersionIds and shown as selected
\* before the toggle is so after it.
C12_ToggleKeepsSelection ==
    [][\A flowId \in FlowRowIds :
          handleFlowToggle(flowId) =>
             /\ selectedVersionIds' = selectedVersionIds
             /\ Len(flows') = Len(flows)
             /\ \A idx \in DOMAIN flows :
                   /\ flows'[idx].versions = flows[idx].versions
                   /\ \A k \in DOMAIN flows[idx].versions :
                         LET v == flows[idx].versions[k]
                         IN  (v.isSelected /\ v.id \in selectedVersionIds) =>
                                /\ flows'[idx].versions[k].isSelected
                                /\ v.id \in selectedVersionIds']_vars

\* C12 witness: a collapsed flow keeps a version that is selected and marked so.
C12_Witness ==
    \E i \in DOMAIN flows :
        /\ ~flows[i].isExpanded
        /\ flows[i].versionsLoaded
        /\ \E k \in DOMAIN flows[i].versions :
              /\ flows[i].versions[k].isSelected
              /\ flows[i].versions[k].id \in selectedVersionIds

\* selectedVersionIds after handleVersionSelect(versionId, true) and then
\* handleVersionSelect(versionId, false)
ToggledTwice(sel, versionId) ==
    ToggledSelection(ToggledSelection(sel, versionId, TRUE), versionId, FALSE)

\* C13 as stated: for any selectedVersionIds and any version id on the page,
\* selecting and then deselecting the id gives back selectedVersionIds.
C13_ToggleTwiceRestores ==
    \A versionId \in VersionRowIds :
        ToggledTwice(selectedVersionIds, versionId) = selectedVersionIds

\* C13, amended: selecting and then deselecting an id gives back
\* selectedVersionIds when the id was not in it; when the id was in it, the
\* result is selectedVersionIds without the id.  Step by step: selecting adds
\* the id and nothing else, deselecting removes the id and nothing else.
C13_ToggleTwiceRemoves ==
    [][\A versionId \in VersionRowIds :
          /\ handleVersionSelect(versionId, TRUE) =>
                /\ selectedVersionIds' = selectedVersionIds \cup {versionId}
                /\ ToggledTwice(selectedVersionIds, versionId) = selectedVersionIds \ {versionId}
                /\ versionId \notin selectedVersionIds =>
                      ToggledSelection(selectedVersionIds', versionId, FALSE) = selectedVersionIds
          /\ handleVersionSelect(versionId, FALSE) =>
                selectedVersionIds' = selectedVersionIds \ {versionId}]_vars

\* C13 witness: two versions are selected by their own checkboxes, so that a
\* toggle has acted on a selection that was not empty.
C13_Witness ==
    /\ Cardinality(selectedVersionIds) >= 2
    /\ \A i \in DOMAIN flows : flows[i].isExpanded
    /\ \E i \in DOMAIN flows : \E k \in DOMAIN flows[i].versions :
          /\ flows[i].versions[k].isSelected
          /\ flows[i].versions[k].isActive
          /\ flows[i].versions[k].id \in selectedVersionIds

\* C14: when a getFlowVersions call for a flow rejects, every row of that flow
\* has isLoadingVersions false and versionsLoaded false afterwards and keeps its
\* versions; selectedVersionIds and the rows of all other flows are as before;
\* one error toast is shown; and the next expansion of the flow fetches again.
C14_FailedVersionFetchIsRetried ==
    [][\A req \in BagToSet(versionReqs) :
          VersionsRejected(req) =>
             /\ Len(flows') = Len(flows)
             /\ \A idx \in DOMAIN flows :
                   IF flows[idx].id = req.flowId
                   THEN /\ ~flows'[idx].isLoadingVersions
                        /\ ~flows'[idx].versionsLoaded
                        /\ flows'[idx].versions = flows[idx].versions
                        /\ NeedsVersions(flows'[idx], TRUE)
                   ELSE flows'[idx] = flows[idx]
             /\ selectedVersionIds' = selectedVersionIds
             /\ Len(toasts') = 1
             /\ toasts'[1].variant = "error"]_vars

\* whether a getFlowDefinitions call that replaces the list (the initial load,
\* or the reload from offset 0) is awaited
ReplacingLoadAwaited == \E req \in BagToSet(listReqs) : ~req.append

\* C15: in every state, noResults is true only if no getFlowDefinitions call
\* that replaces the list is awaited, and it is false while the component has
\* not started its first load.
C15_NoResultsOnlyWhenNotLoading ==
    noResults => (~ReplacingLoadAwaited /\ ~accessPending)

\* C16: when a deleteFlowVersions call resolves with failureCount >= 1, the ids
\* written to the console are exactly the ids of the result entries with
\* success = false, one line for each, and none of an entry with success = true;
\* with failureCount = 0 nothing is written.  A result with successCount = 3,
\* failureCount = 1 and one failed entry gives exactly one line.
C16_OneLogLinePerFailure ==
    /\ LET ids    == {1, 2, 3, 4}
           result == DeleteResult(DeleteRequest(ids, "00D-session"), {4})
       IN  /\ result.successCount = 3
           /\ result.failureCount = 1
           /\ LoggedFailures(result) = {4}
    /\ [][\A req \in BagToSet(deleteReqs) : \A failed \in SUBSET req.flowVersionIds :
             DeleteResolved(req, failed) =>
                LET result == DeleteResult(req, failed)
                IN  /\ result.failureCount = 0 => logged' = {}
                    /\ result.failureCount >= 1 =>
                          /\ logged' = {r.flowVersionId : r \in {x \in result.results : ~x.success}}
                          /\ Cardinality(logged') = result.failureCount
                          /\ \A r \in result.results : r.success => r.flowVersionId \notin logged'
                    /\ Len(toasts') = 1
                    /\ toasts'[1].successCount = result.successCount
                    /\ toasts'[1].failureCount = result.failureCount]_vars

\* C16 witness: a delete of two ids has resolved with one failure and one
\* success, and exactly the failed id was written to the console.
C16_Witness ==
    /\ Cardinality(logged) = 1
    /\ logged \subseteq OrgActiveIds
    /\ Len(toasts) = 1
    /\ toasts[1].variant = "warning"
    /\ toasts[1].successCount = 1
    /\ toasts[1].failureCount = 1

\* the number of getFlowVersions calls awaited for a flow
VersionFetchesAwaited(flowId) ==
    LET reqs == {req \in BagToSet(versionReqs) : req.flowId = flowId}
        RECURSIVE Sum(_)
        Sum(S) == IF S = {} THEN 0
                  ELSE LET r == CHOOSE x \in S : TRUE
                       IN  CopiesIn(r, versionReqs) + Sum(S \ {r})
    IN  Sum(reqs)

\* C17: at no time are two getFlowVersions calls awaited for the same flow.
C17_OneVersionFetchPerFlow ==
    \A flowId \in OrgFlowIds : VersionFetchesAwaited(flowId) <= 1

\* C18: the step that handles the answer to a getFlowVersions call for a flow,
\* result or rejection, changes no row of another flow, and changes the rows of
\* its own flow only.
C18_VersionResponseTouchesItsFlowOnly ==
    [][\A req \in BagToSet(versionReqs) :
          (VersionsResolved(req) \/ VersionsRejected(req)) =>
             /\ Len(flows') = Len(flows)
             /\ \A idx \in DOMAIN flows :
                   flows[idx].id # req.flowId => flows'[idx] = flows[idx]]_vars

\* C19: in every state, for every flow whose versions are loaded,
\* allInactiveSelected is true exactly when the flow has an inactive version and
\* the ids of all its inactive versions are in selectedVersionIds.
C19_AllInactiveSelectedIsDerived ==
    \A i \in DOMAIN flows :
        flows[i].versionsLoaded =>
           (flows[i].allInactiveSelected <=>
               /\ \E k \in DOMAIN flows[i].versions : ~flows[i].versions[k].isActive
               /\ \A k \in DOMAIN flows[i].versions :
                     ~flows[i].versions[k].isActive =>
                        flows[i].versions[k].id \in selectedVersionIds)

\* C20: the modal is opened by handleDeleteClick only when selectedVersionIds is
\* not empty, and no deleteFlowVersions call is made with an empty id list.
C20_NeverDeletesNothing ==
    [][/\ (handleDeleteClick /\ ~showDeleteModal /\ showDeleteModal') => selectedVersionIds # {}
       /\ \A req \in Issued(deleteReqs, deleteReqs') : req.flowVersionIds # {}]_vars

\* C21: no flow id appears more than once in the flow list (the org returns
\* disjoint pages for distinct offsets and the same page for the same offset).
C21_NoDuplicateFlowIds ==
    \A i, j \in DOMAIN flows : flows[i].id = flows[j].id => i = j

(***************************************************************************)
(* The component with a platform that answers: every awaited call is       *)
(* eventually resolved or rejected.  The user's handlers stay unforced.    *)
(***************************************************************************)
\* the hasAccess() call is answered
AccessAnswered ==
    \/ \E userHasAccess \in BOOLEAN : HasAccessResolved(userHasAccess)
    \/ HasAccessRejected

\* a getFlowDefinitions call of loadFlows(append) is answered
LoadAnswered(append) ==
    \E req \in BagToSet(listReqs) :
        /\ req.append = append
        /\ (LoadFlowsResolved(req) \/ LoadFlowsRejected(req))

\* a getFlowVersions call made for a flow is answered
VersionsAnswered(flowId) ==
    \E req \in BagToSet(versionReqs) :
        /\ req.flowId = flowId
        /\ (VersionsResolved(req) \/ VersionsRejected(req))

\* a deleteFlowVersions call is answered
DeleteAnswered ==
    \E req \in BagToSet(deleteReqs) :
        \/ \E failed \in SUBSET req.flowVersionIds : DeleteResolved(req, failed)
        \/ DeleteRejected(req)

Answering ==
    /\ WF_vars(AccessAnswered)
    /\ \A append \in BOOLEAN : WF_vars(LoadAnswered(append))
    /\ \A flowId \in OrgFlowIds : WF_vars(VersionsAnswered(flowId))
    /\ WF_vars(DeleteAnswered)

SpecAnswered == Init /\ [][Next]_vars /\ Answering

\* rows of the flow list whose version spinner is on
LoadingRows == {i \in DOMAIN flows : flows[i].isLoadingVersions}

\* ids of the flows a row of which has its version spinner on
LoadingFlows == {flows[i].id : i \in LoadingRows}

\* C22: when every awaited call is eventually answered, no busy flag stays set
\* for ever: isLoading, isLoadingMore, isDeleting and the isLoadingVersions of
\* each row are false again and again; and once a delete has been confirmed the
\* modal is eventually closed, as the step that takes isDeleting down closes it.
C22_BusyFlagsComeDown ==
    /\ []<>(~isLoading)
    /\ []<>(~isLoadingMore)
    /\ []<>(~isDeleting)
    /\ \A flowId \in OrgFlowIds : []<>(flowId \notin LoadingFlows)
    /\ [][(isDeleting /\ ~isDeleting') => ~showDeleteModal']_vars

\* C22 witness: a confirmed delete has been answered and its reload is awaited
\* together with a load-more: isLoading, isLoadingMore, isDeleting and the
\* modal are all up.
C22_Witness ==
    /\ isLoading
    /\ isLoadingMore
    /\ isDeleting
    /\ showDeleteModal
    /\ \E req \in BagToSet(listReqs) : req.cont = "delete"
    /\ \E req \in BagToSet(listReqs) : req.append

====
